---- MODULE Spec2Model ----
(***************************************************************************)
(* PearlDiver: the queue / state machine that serialises proof-of-work     *)
(* searches onto one WebGL backend (src/src/shaders/transform.ts, class    *)
(* PearlDiver).  Every public call and every timer callback runs to        *)
(* completion on the single JavaScript thread, so each is one action.      *)
(***************************************************************************)
EXTENDS Integers, Sequences, FiniteSets, TLC

(* ------------------------------ bounds -------------------------------- *)

\* Curl.HASH_LENGTH, scaled down (243 in the hash library).
HASH_LENGTH == 3

\* Number of search() calls that are accepted in one behaviour.
MaxJobs == 2

\* Size of the nonce counter space of the backend (the counter wraps).
NonceSpace == 3

(* ----------------------------- constants ------------------------------ *)

\* Curl.STATE_LENGTH is three times the hash length.
STATE_LENGTH == 3 * HASH_LENGTH

TEXEL_SIZE == 4

LOW_BITS == 0

HIGH_BITS == -1

\* PearlDiverState
PearlDiverState == {"ready", "searching", "interrupted"}

\* Job identities given to the search objects in the order search() makes them.
JobIds == 1 .. MaxJobs

\* `undefined`, the result of shift() on an empty queue.
NoJob == 0

\* Marks a continuation that has not been invoked.
NoResult == -1

(* ------------------------------ helpers ------------------------------- *)

\* Array.prototype.shift / pop / unshift on the queue.
Shift(q) == IF q = <<>> THEN <<>> ELSE Tail(q)

Pop(q) == IF q = <<>> THEN <<>> ELSE SubSeq(q, 1, Len(q) - 1)

\* Mutant: push in place of unshift.
Unshift_push(q, e) == q \o <<e>>

Unshift(q, e) == <<e>> \o q

\* The ids of the search objects in a queue.
QueueIds(q) == {q[i].id : i \in 1 .. Len(q)}

\* Length of the host buffer: one row of STATE_LENGTH + 1 texels.
BufferLength == (STATE_LENGTH + 1) * TEXEL_SIZE

\* The Int32Array returned by getIpt().data, zero filled.
EmptyBuffer == [k \in 1 .. BufferLength |-> 0]

\* webGLWriteBuffers: cell i becomes the texel (low, high, low, high); the
\* sentinel texel (index STATE_LENGTH) is not written.
webGLWriteBuffers(buf, states) ==
    [k \in 1 .. BufferLength |->
        IF k <= STATE_LENGTH * TEXEL_SIZE
        THEN LET i == ((k - 1) \div TEXEL_SIZE) + 1
                 c == (k - 1) % TEXEL_SIZE
             IN  IF c % 2 = 0 THEN states.low[i] ELSE states.high[i]
        ELSE buf[k]]

\* pack(l) folded over a flat array: the array cut into rows of l elements.
pack(l, arr) ==
    [r \in 1 .. ((Len(arr) + l - 1) \div l) |->
        [c \in 1 .. (IF r * l <= Len(arr) THEN l ELSE Len(arr) - (r - 1) * l)
            |-> arr[(r - 1) * l + c]]]

\* Mutant: the restored low and high taken from channels 1 and 0.
SavedStates_swapped(buf) ==
    LET texels == SubSeq(pack(4, buf), 1, STATE_LENGTH)
    IN  [low  |-> [i \in 1 .. Len(texels) |-> texels[i][2]],
         high |-> [i \in 1 .. Len(texels) |-> texels[i][1]]]

\* saveSearch's reduce chain: the first STATE_LENGTH texels, channel 0 of
\* each collected as "low" and channel 1 as "high".
SavedStates(buf) ==
    LET texels == SubSeq(pack(4, buf), 1, STATE_LENGTH)
    IN  [low  |-> [i \in 1 .. Len(texels) |-> texels[i][1]],
         high |-> [i \in 1 .. Len(texels) |-> texels[i][2]]]

(* -------------------------- the state encoder ------------------------ *)

\* The counter seed words, as the Int32Array cells hold them:
\* 0xDB6DB6DB, 0xF1F8FC7E, 0x7FFFE00F, 0xFFC00000.
LOW_0 == -613566757

LOW_1 == -235340674

LOW_2 == 2147475471

LOW_3 == -4194304

\* 0xB6DB6DB6, 0x8FC7E3F1, 0xFFC01FFF, 0x003FFFFF.
HIGH_0 == -1227133514

HIGH_1 == -1882725391

HIGH_2 == -4186113

HIGH_3 == 4194303

\* The bit positions of a 32-bit word.
Lanes == 0 .. 31

\* Bit b of the 32-bit two's complement word w.
Bit(w, b) == IF b = 31 THEN (IF w < 0 THEN 1 ELSE 0) ELSE (w \div (2 ^ b)) % 2

NONCE_LENGTH == HASH_LENGTH \div 3

NONCE_START == HASH_LENGTH - NONCE_LENGTH

\* Mutant: the +1 case clears the high word instead of the low word.
TritPair_swapped(trit) ==
    IF trit = 0 THEN [low |-> HIGH_BITS, high |-> HIGH_BITS]
    ELSE IF trit = 1 THEN [low |-> HIGH_BITS, high |-> LOW_BITS]
    ELSE [low |-> HIGH_BITS, high |-> LOW_BITS]

\* The switch of searchToPair: the (low, high) words of one trit.
TritPair(trit) ==
    IF trit = 0 THEN [low |-> HIGH_BITS, high |-> HIGH_BITS]
    ELSE IF trit = 1 THEN [low |-> LOW_BITS, high |-> HIGH_BITS]
    ELSE [low |-> HIGH_BITS, high |-> LOW_BITS]

\* Mutant: the third seed written again in place of the fourth.
searchOffset_repeated(states, at) ==
    LET put(arr, w) == [i \in DOMAIN arr |->
                           IF i - 1 \in at .. at + 3 THEN w[i - at] ELSE arr[i]]
    IN  [low  |-> put(states.low,  <<LOW_0, LOW_1, LOW_2, LOW_2>>),
         high |-> put(states.high, <<HIGH_0, HIGH_1, HIGH_2, HIGH_2>>)]

\* searchOffset(states, offset): the four seed words written at the 0-based
\* cells at .. at + 3 of both halves.
searchOffset(states, at) ==
    LET put(arr, w) == [i \in DOMAIN arr |->
                           IF i - 1 \in at .. at + 3 THEN w[i - at] ELSE arr[i]]
    IN  [low  |-> put(states.low,  <<LOW_0, LOW_1, LOW_2, LOW_3>>),
         high |-> put(states.high, <<HIGH_0, HIGH_1, HIGH_2, HIGH_3>>)]

\* searchToPair(state): every trit encoded, then the seeds written.
searchToPair(trits) ==
    searchOffset([low  |-> [i \in 1 .. STATE_LENGTH |-> TritPair(trits[i]).low],
                  high |-> [i \in 1 .. STATE_LENGTH |-> TritPair(trits[i]).high]],
                 NONCE_START)

(* ------------------------- the compute backend ------------------------ *)

\* The trit vectors prepare() hands to searchToPair: every trit 0, and the
\* same with the trit +1 in the first cell.
TritInputs == {[i \in 1 .. STATE_LENGTH |-> IF i = 1 THEN t ELSE 0] : t \in {0, 1}}

\* The states offered to search(): what searchToPair returns for them.
StatesInputs == {searchToPair(trits) : trits \in TritInputs}

\* The difficulties offered to search(): the values around both limits.
MinWeightInputs == {-1, 0, 1, HASH_LENGTH - 1, HASH_LENGTH, HASH_LENGTH + 1}

\* The offsets offered to setOffset().
OffsetInputs == {0, 1}

\* What the kernels hash: the number of +1 cells of the uploaded state.
Digest(ipt) ==
    Cardinality({i \in 1 .. STATE_LENGTH : ipt[(i - 1) * TEXEL_SIZE + 1] = LOW_BITS})

RECURSIVE TrailingZeroTrits(_)
\* Number of trailing zero trits of a value of HASH_LENGTH trits.
TrailingZeroTrits(n) ==
    IF n = 0 THEN HASH_LENGTH
    ELSE IF n % 3 # 0 THEN 0
    ELSE LET t == 1 + TrailingZeroTrits(n \div 3)
         IN  IF t > HASH_LENGTH THEN HASH_LENGTH ELSE t

\* runProgram("init", gr_offset): the nonce counter starts at the offset.
InitKernel(gr_offset) == gr_offset % NonceSpace

\* runProgram("increment"): one counter step, wrapping.
IncrementKernel(nonce) == (nonce + 1) % NonceSpace

\* twist x rounds, check(minWeightMagnitude), col_check, readData(...)[2]:
\* TRUE when the sentinel is not -1, i.e. some lane meets the difficulty.
SentinelMatch(g, minWeightMagnitude) ==
    TrailingZeroTrits(Digest(g.ipt) + g.nonce) >= minWeightMagnitude

\* Mutant: the check dispatched before the permutation rounds.
RoundOps_checkFirst == <<"increment", "check", "twist", "col_check", "readData">>

\* The kernels dispatched by one round, in order, and the sentinel read.
RoundOps == <<"increment", "twist", "check", "col_check", "readData">>

(* ------------------------------- state -------------------------------- *)

VARIABLES
    state,          \* _state
    queue,          \* _queue, a sequence of search objects
    offset,         \* _offset
    currentBuffer,  \* _currentBuffer, the host copy of the backend buffer
    gpu,            \* the backend buffer: uploaded data and nonce counter
    timers,         \* search objects with a pending setTimeout(webGLSearch)
    results,        \* per job, the value its callback was invoked with
    nextId,         \* identity of the next search object search() creates
    removed,        \* ids of the jobs remove() has popped
    clean,          \* no interrupt(), resume() or remove() has been called
    last,           \* the last call or callback and what it did
    aux             \* input and output of the function or scenario under study

vars == <<state, queue, offset, currentBuffer, gpu, timers, results, nextId,
          removed, clean, last, aux>>

\* The mutable fields of the PearlDiver instance and its backend as one value.
Prog ==
    [state |-> state, queue |-> queue, offset |-> offset,
     currentBuffer |-> currentBuffer, gpu |-> gpu, timers |-> timers,
     results |-> results,
     ops |-> <<>>, popped |-> NoJob, bound |-> NoJob, err |-> FALSE]

TimerIds == {t.id : t \in timers}

Resolved == {j \in JobIds : results[j] # NoResult}

Accepted == 1 .. (nextId - 1)

\* No function or scenario is under study.
NoAux == [kind |-> "none"]

\* The PearlDiver instance after construction.
InitProg ==
    /\ state = "ready"
    /\ queue = <<>>
    /\ offset = 0
    /\ currentBuffer = EmptyBuffer
    /\ gpu = [ipt |-> EmptyBuffer, nonce |-> 0]
    /\ timers = {}
    /\ results = [j \in JobIds |-> NoResult]
    /\ nextId = 1
    /\ removed = {}
    /\ clean = TRUE
    /\ last = [op |-> "init", arg |-> 0, job |-> NoJob, res |-> "",
               popped |-> NoJob, bound |-> NoJob, err |-> FALSE, ops |-> <<>>]

Init == InitProg /\ aux = NoAux

(* ---------------------------- the methods ----------------------------- *)

\* webGLFindNonce(searchObject): upload, "init", first round scheduled.
webGLFindNonce(p, searchObject) ==
    LET buf == webGLWriteBuffers(p.currentBuffer, searchObject.states)
    IN  [p EXCEPT !.currentBuffer = buf,
                  !.gpu = [ipt |-> buf, nonce |-> InitKernel(p.offset)],
                  !.timers = p.timers \cup {searchObject},
                  !.bound = searchObject.id,
                  !.ops = p.ops \o <<"writeData", "init">>]

\* Mutant: the state test of searchDoNext() inverted.
IsSearching_inverted(s) == s # "searching"

\* searchDoNext()'s test of _state.
IsSearching(s) == s = "searching"

\* searchDoNext(): shift the queue; start the shifted job unless the engine
\* is searching, in which case it becomes ready.  Starting `undefined`
\* (empty queue) throws after _state has been assigned.
searchDoNext(p) ==
    LET q    == [p EXCEPT !.queue = Shift(p.queue),
                          !.popped = IF p.queue = <<>> THEN NoJob
                                     ELSE Head(p.queue).id]
    IN  IF ~IsSearching(p.state)
        THEN IF p.queue = <<>>
             THEN [q EXCEPT !.state = "searching", !.err = TRUE]
             ELSE webGLFindNonce([q EXCEPT !.state = "searching"], Head(p.queue))
        ELSE [q EXCEPT !.state = "ready"]

\* Mutant: the limits themselves are let through.
BadMinWeight_strict(minWeight) == minWeight > HASH_LENGTH \/ minWeight < 0

\* The difficulty test of search().
BadMinWeight(minWeight) == minWeight >= HASH_LENGTH \/ minWeight <= 0

\* Mutant: search() starts the queue head whenever no search is running.
StartsOnPush_notSearching(s) == s # "searching"

\* search()'s test for starting the queue head after the push.
StartsOnPush(s) == s = "ready"

\* Mutant: the round loop tests for the wrong state.
IsInterrupted_ready(s) == s = "ready"

\* webGLSearch's test for parking the job after a round without a match.
IsInterrupted(s) == s = "interrupted"

\* saveSearch(searchObject): snapshot of the host buffer into the job, job
\* put back at the head of the queue.
saveSearch(p, searchObject) ==
    [p EXCEPT !.queue = Unshift(p.queue,
                  [searchObject EXCEPT !.states = SavedStates(p.currentBuffer)])]

\* Mutant: interrupt() without its guard.
InterruptState_unguarded(s) == "interrupted"

\* interrupt()'s effect on _state.
InterruptState(s) == IF s = "searching" THEN "interrupted" ELSE s

\* webGLSearch(searchObject): one round; on no match either park the job
\* (interrupted) or schedule the next round; on a match finalize, invoke the
\* callback and call searchDoNext().
webGLSearch(p, searchObject) ==
    LET g  == [p.gpu EXCEPT !.nonce = IncrementKernel(p.gpu.nonce)]
        p1 == [p EXCEPT !.gpu = g,
                        !.timers = p.timers \ {searchObject},
                        !.ops = p.ops \o RoundOps]
    IN  IF ~SentinelMatch(g, searchObject.minWeightMagnitude)
        THEN IF IsInterrupted(p1.state)
             THEN saveSearch(p1, searchObject)
             ELSE [p1 EXCEPT !.timers = p1.timers \cup {searchObject}]
        ELSE searchDoNext(
                 [p1 EXCEPT !.results[searchObject.id] = g.nonce,
                            !.ops = p1.ops \o <<"finalize", "readData", "callback">>])

\* Write the fields of a program value back to the variables.
CommitProg(p) ==
    /\ state' = p.state
    /\ queue' = p.queue
    /\ offset' = p.offset
    /\ currentBuffer' = p.currentBuffer
    /\ gpu' = p.gpu
    /\ timers' = p.timers
    /\ results' = p.results

\* The same for a call of the engine: no function or scenario input changes.
Commit(p) == CommitProg(p) /\ aux' = aux

Log(op, arg, job, res, p) ==
    last' = [op |-> op, arg |-> arg, job |-> job, res |-> res,
             popped |-> p.popped, bound |-> p.bound, err |-> p.err, ops |-> p.ops]

(* ----------------------------- the actions ---------------------------- *)

\* search(states, minWeight) with a difficulty that is rejected.
SearchRejected(minWeight) ==
    /\ BadMinWeight(minWeight)
    /\ Commit(Prog)
    /\ Log("search", minWeight, NoJob, "rejected", Prog)
    /\ UNCHANGED <<nextId, removed, clean>>

\* search(states, minWeight) with a difficulty that is accepted.
SearchAccepted(states, minWeight) ==
    /\ ~BadMinWeight(minWeight)
    /\ nextId <= MaxJobs
    /\ LET job == [id |-> nextId, states |-> states, minWeightMagnitude |-> minWeight]
           p0  == [Prog EXCEPT !.queue = Append(queue, job)]
           p   == IF StartsOnPush(state) THEN searchDoNext(p0) ELSE p0
       IN  /\ Commit(p)
           /\ Log("search", minWeight, nextId, "queued", p)
    /\ nextId' = nextId + 1
    /\ UNCHANGED <<removed, clean>>

search ==
    \E states \in StatesInputs, minWeight \in MinWeightInputs :
        \/ SearchRejected(minWeight)
        \/ SearchAccepted(states, minWeight)

setOffset ==
    \E o \in OffsetInputs :
        /\ Commit([Prog EXCEPT !.offset = o])
        /\ Log("setOffset", o, NoJob, "", Prog)
        /\ UNCHANGED <<nextId, removed, clean>>

interrupt ==
    /\ Commit([Prog EXCEPT !.state = InterruptState(state)])
    /\ Log("interrupt", 0, NoJob, "", Prog)
    /\ clean' = FALSE
    /\ UNCHANGED <<nextId, removed>>

resume ==
    /\ LET p == searchDoNext(Prog)
       IN  /\ Commit(p)
           /\ Log("resume", 0, NoJob, "", p)
    /\ clean' = FALSE
    /\ UNCHANGED <<nextId, removed>>

remove ==
    /\ Commit([Prog EXCEPT !.queue = Pop(queue)])
    /\ Log("remove", 0, IF queue = <<>> THEN NoJob ELSE queue[Len(queue)].id, "", Prog)
    /\ removed' = IF queue = <<>> THEN removed
                  ELSE removed \cup {queue[Len(queue)].id}
    /\ clean' = FALSE
    /\ UNCHANGED nextId

\* A pending timer fires: webGLSearch(searchObject).
timerFires ==
    \E searchObject \in timers :
        LET p   == webGLSearch(Prog, searchObject)
            g   == [gpu EXCEPT !.nonce = IncrementKernel(gpu.nonce)]
            res == IF SentinelMatch(g, searchObject.minWeightMagnitude) THEN "match"
                   ELSE IF IsInterrupted(state) THEN "saved" ELSE "continue"
        IN  /\ Commit(p)
            /\ Log("webGLSearch", 0, searchObject.id, res, p)
            /\ UNCHANGED <<nextId, removed, clean>>

Next ==
    \/ search
    \/ setOffset
    \/ interrupt
    \/ resume
    \/ remove
    \/ timerFires

Spec == Init /\ [][Next]_vars

TypeOK ==
    /\ state \in PearlDiverState
    /\ offset \in OffsetInputs
    /\ nextId \in 1 .. MaxJobs + 1
    /\ QueueIds(queue) \subseteq Accepted
    /\ TimerIds \subseteq Accepted
    /\ gpu.nonce \in 0 .. NonceSpace - 1

(* ------------------------------ claims -------------------------------- *)

\* C1: at most one job is bound to the backend: there is never more than one
\* pending round loop, and after a buffer upload plus "init" the only pending
\* round loop is the one of the job just uploaded.
C1_SingleJobBound ==
    /\ Cardinality(timers) <= 1
    /\ last.bound # NoJob => TimerIds = {last.bound}

\* A job that is neither resolved, nor pending in the queue, nor bound to the
\* backend can never have its continuation invoked: callbacks are invoked by
\* round loops only, and round loops are started for queued jobs only.
JobAlive(j) == j \in Resolved \/ j \in QueueIds(queue) \/ j \in TimerIds

\* C2: as long as interrupt(), resume() and remove() are never called, every
\* job accepted by search() is resolved or still on its way to being resolved
\* (queued or bound to the backend); in particular a job enqueued behind a
\* running job is still there to be started when the running job matches.
C2_AcceptedJobsResolve ==
    clean => \A j \in Accepted : JobAlive(j)

\* C3: search() with difficulty <= 0 or >= hash length is rejected and changes
\* nothing: queue, engine state, offset, host buffer, backend and timers stay
\* as they were, no job is created and no backend operation is issued.
C3_BadDifficultyRejected ==
    [][ (last'.op = "search" /\ (last'.arg <= 0 \/ last'.arg >= HASH_LENGTH))
        => /\ last'.res = "rejected"
           /\ last'.job = NoJob
           /\ last'.ops = <<>>
           /\ UNCHANGED <<state, queue, offset, currentBuffer, gpu, timers,
                          results, nextId>> ]_vars

\* C3 witness: a rejected search() while a job is parked, another is pending
\* and the engine is interrupted.
C3_Witness ==
    /\ last.op = "search"
    /\ last.res = "rejected"
    /\ last.arg = HASH_LENGTH
    /\ state = "interrupted"
    /\ Len(queue) = 2
    /\ offset # 0

\* The search objects of a queue, as a set.
QueueJobs(q) == {q[i] : i \in 1 .. Len(q)}

\* C4: an accepted search() made while the engine is searching or interrupted
\* only appends the new job at the tail (state, existing entries, buffer,
\* backend and timers untouched, no backend operation); made while the engine
\* is ready it appends the job and starts the job at the queue head.
C4_SearchAppendsOrStarts ==
    [][ (last'.op = "search" /\ last'.arg > 0 /\ last'.arg < HASH_LENGTH)
        => LET new == CHOOSE j \in timers' \cup QueueJobs(queue') : j.id = nextId
               q   == queue \o <<new>>
           IN  /\ last'.job = nextId
               /\ new.minWeightMagnitude = last'.arg
               /\ state \in {"searching", "interrupted"}
                    => /\ state' = state
                       /\ queue' = q
                       /\ last'.ops = <<>>
                       /\ last'.bound = NoJob
                       /\ UNCHANGED <<offset, currentBuffer, gpu, timers, results>>
               /\ state = "ready"
                    => /\ state' = "searching"
                       /\ queue' = Tail(q)
                       /\ timers' = timers \cup {Head(q)}
                       /\ last'.bound = Head(q).id
                       /\ last'.ops = <<"writeData", "init">>
                       /\ SavedStates(currentBuffer') = Head(q).states
                       /\ gpu'.ipt = currentBuffer'
                       /\ UNCHANGED <<offset, results>> ]_vars

\* C4 witness: an accepted search() has appended its job behind a parked job
\* while the engine is interrupted.
C4_Witness ==
    /\ last.op = "search"
    /\ last.job # NoJob
    /\ last.bound = NoJob
    /\ state = "interrupted"
    /\ Len(queue) = 2
    /\ queue[2].id = last.job

\* The jobs webGLFindNonce has been called with, in a behaviour without
\* interrupt(), resume() and remove(): no job is ever parked, so a started
\* job is bound to the backend until it is resolved.
StartedClean == TimerIds \cup Resolved

\* C5: the queue is FIFO.  A job enqueued on an idle engine is started by that
\* very call; as long as interrupt(), resume() and remove() are not called, a
\* later job has been started only if no earlier job is still bound to the
\* backend or pending (the earlier job's continuation was invoked first); and
\* a job parked by an interruption is put ahead of all pending jobs.
C5_QueueIsFifo ==
    /\ [](clean => \A a, b \in Accepted :
             (a < b /\ b \in StartedClean) => (a \notin TimerIds /\ a \notin QueueIds(queue)))
    /\ [][ (state = "ready" /\ queue = <<>> /\ timers = {}
            /\ last'.op = "search" /\ last'.arg > 0 /\ last'.arg < HASH_LENGTH)
           => (last'.bound = nextId /\ TimerIds' = {nextId}) ]_vars
    /\ [][ (state = "interrupted" /\ last'.op = "webGLSearch"
            /\ results'[last'.job] = NoResult)
           => (/\ queue' # <<>>
               /\ Head(queue').id = last'.job
               /\ Tail(queue') = queue) ]_vars

\* C5 witness: without interrupt(), resume() or remove(), the first job has
\* been resolved and the second one is bound to the backend.
C5_Witness ==
    /\ clean
    /\ 1 \in Resolved
    /\ 2 \in TimerIds
    /\ last.op = "search"

\* The job an effective interrupt() has stopped: the one whose round loop is
\* still pending, or, once the loop has parked it, the one at the queue head.
InterruptedJob ==
    IF timers # {} THEN (CHOOSE t \in timers : TRUE).id
    ELSE IF queue # <<>> THEN Head(queue).id
    ELSE NoJob

\* C6: resume() called on an interrupted engine continues the interrupted
\* job: whether or not the round loop has already parked it, after resume()
\* the job bound to the backend is that job and no other.
C6_ResumeContinuesInterrupted ==
    [][ (state = "interrupted" /\ Cardinality(timers) <= 1
         /\ InterruptedJob # NoJob /\ last'.op = "resume")
        => TimerIds' = {InterruptedJob} ]_vars

\* C7: while the engine is interrupted and resume() has not been called, the
\* active job runs at most one more round; if that round finds no match the
\* job is put back at the queue head, the engine stays interrupted, nothing
\* but that round's kernels is dispatched and no continuation is invoked; and
\* once the job is parked nothing is dispatched or resolved until resume().
C7_InterruptParksJob ==
    /\ [][ (state = "interrupted" /\ last'.op = "webGLSearch")
           => (/\ last'.job \notin TimerIds'
               /\ SubSeq(last'.ops, 1, Len(RoundOps)) = RoundOps) ]_vars
    /\ [][ (state = "interrupted"
            /\ last'.op = "webGLSearch" /\ results'[last'.job] = NoResult)
           => (/\ state' = "interrupted"
               /\ queue' # <<>>
               /\ Head(queue').id = last'.job
               /\ Tail(queue') = queue
               /\ last'.ops = RoundOps
               /\ last'.bound = NoJob
               /\ results' = results) ]_vars
    /\ [][ (/\ state = "interrupted"
            /\ timers = {} \/ (last.op = "webGLSearch" /\ last.res = "saved")
            /\ last'.op # "resume")
           => (/\ state' = "interrupted"
               /\ last'.ops = <<>>
               /\ results' = results
               /\ gpu' = gpu) ]_vars

\* C8: interrupt() turns searching into interrupted and is a no-op in the
\* other two states, so a second interrupt() changes nothing; it never
\* touches the queue, the offset, the buffers, the pending round loop or the
\* results.
C8_InterruptOnlyWhenSearching ==
    [][ last'.op = "interrupt"
        => (/\ state = "searching" => state' = "interrupted"
            /\ state # "searching" => state' = state
            /\ InterruptState(state') = state'
            /\ last'.ops = <<>>
            /\ UNCHANGED <<queue, offset, currentBuffer, gpu, timers, results>>) ]_vars

\* C8 witness: interrupt() has acted on an engine with a job bound to the
\* backend, a pending job and a non-zero offset, and the engine is interrupted.
C8_Witness ==
    /\ last.op = "interrupt"
    /\ state = "interrupted"
    /\ Cardinality(timers) = 1
    /\ queue # <<>>
    /\ offset # 0

\* C9: the engine state agrees with the backend binding: ready means no round
\* loop is pending, searching means exactly one is.
C9_StateMatchesBinding ==
    /\ state = "ready" => timers = {}
    /\ state = "searching" => Cardinality(timers) = 1

\* C10: the engine state moves only along ready->searching, searching->ready,
\* searching->interrupted and interrupted->searching, and it leaves
\* interrupted only as the effect of resume().
C10_TransitionsAndResumeOnly ==
    [][ /\ <<state, state'>> \in
              {<<"ready", "ready">>, <<"searching", "searching">>,
               <<"interrupted", "interrupted">>,
               <<"ready", "searching">>, <<"searching", "ready">>,
               <<"searching", "interrupted">>, <<"interrupted", "searching">>}
        /\ (state = "interrupted" /\ state' = "searching") => last'.op = "resume"
        /\ (state = "interrupted" /\ last'.bound # NoJob) => last'.op = "resume" ]_vars

\* C11: remove() deletes exactly the tail of the queue, which is the most
\* recently enqueued job still pending (ids are given in enqueue order), and
\* does nothing on an empty queue; state, offset, buffers, round loops and
\* results are untouched, the remaining entries keep their order, and the
\* continuation of a removed job is never invoked afterwards.
C11_RemoveDropsNewestPending ==
    /\ [][ last'.op = "remove"
           => (/\ queue = <<>> => queue' = <<>>
               /\ queue # <<>>
                    => /\ queue' = SubSeq(queue, 1, Len(queue) - 1)
                       /\ \A i \in 1 .. Len(queue) - 1 :
                              queue[i].id < queue[Len(queue)].id
               /\ last'.ops = <<>>
               /\ UNCHANGED <<state, offset, currentBuffer, gpu, timers, results>>) ]_vars
    /\ [][ \A j \in removed : results'[j] = results[j] ]_vars

(* ------------------- interrupt and resume of one job ------------------ *)

\* The scenario of an interrupted and resumed job: the first job's input is
\* fixed beforehand, the offset is set before that job is enqueued and not
\* afterwards, and resume() is only called on an interrupted engine.
InitResume ==
    /\ InitProg
    /\ aux \in {[kind |-> "given", states |-> s, minWeight |-> m] :
                   s \in StatesInputs, m \in {w \in MinWeightInputs : ~BadMinWeight(w)}}

OffsetBefore == nextId = 1 /\ setOffset

SearchGiven == nextId = 1 /\ SearchAccepted(aux.states, aux.minWeight)

SearchLater == nextId > 1 /\ search

ResumeInterrupted == state = "interrupted" /\ resume

NextResume ==
    \/ OffsetBefore
    \/ SearchGiven
    \/ SearchLater
    \/ interrupt
    \/ ResumeInterrupted
    \/ timerFires

SpecResume == InitResume /\ [][NextResume]_vars

RECURSIVE RoundLoop(_, _, _)
\* The round loop of webGLSearch run without interruption for at most `left`
\* rounds: the counter value at the first match, NoResult if there is none.
RoundLoop(g, minWeightMagnitude, left) ==
    IF left = 0 THEN NoResult
    ELSE LET g1 == [g EXCEPT !.nonce = IncrementKernel(g.nonce)]
         IN  IF SentinelMatch(g1, minWeightMagnitude) THEN g1.nonce
             ELSE RoundLoop(g1, minWeightMagnitude, left - 1)

\* The nonce an uninterrupted run of a job on a free engine ends with.
UninterruptedNonce(states, minWeightMagnitude, gr_offset) ==
    RoundLoop([ipt |-> webGLWriteBuffers(EmptyBuffer, states),
               nonce |-> InitKernel(gr_offset)],
              minWeightMagnitude, NonceSpace)

\* C12: a job that is interrupted and resumed any number of times has its
\* continuation invoked with the nonce an uninterrupted run on the same input
\* state, difficulty and start offset ends with.
C12_ResumeYieldsSameNonce ==
    results[1] # NoResult
        => results[1] = UninterruptedNonce(aux.states, aux.minWeight, offset)

\* What searchDoNext() is required to do in a step that calls it, given the
\* results the step has set before the call.
DoNextEffect(resultsBefore) ==
    /\ queue' = Shift(queue)
    /\ last'.popped = (IF queue = <<>> THEN NoJob ELSE Head(queue).id)
    /\ results' = resultsBefore
    /\ state = "searching"
         => /\ state' = "ready"
            /\ last'.bound = NoJob
            /\ last'.popped \notin TimerIds'
            /\ ~last'.err
    /\ state # "searching"
         => /\ state' = "searching"
            /\ queue # <<>>
                 => /\ last'.bound = Head(queue).id
                    /\ Head(queue) \in timers'
                    /\ SubSeq(last'.ops, Len(last'.ops) - 1, Len(last'.ops))
                           = <<"writeData", "init">>

\* C13: searchDoNext() invoked while the engine is searching (resume() during
\* a search, or the completion of a job) removes the queue head without
\* starting it or invoking its continuation and makes the engine ready;
\* invoked in any other state it makes the engine searching and starts the
\* job it removed from the queue head.
C13_DoNextDropsWhenSearching ==
    /\ [][ last'.op = "resume" => DoNextEffect(results) ]_vars
    /\ [][ (last'.op = "webGLSearch" /\ results'[last'.job] # results[last'.job])
           => DoNextEffect([results EXCEPT ![last'.job] = results'[last'.job]]) ]_vars

\* C13 witness: a job has matched while the engine was searching; the job
\* that was queued behind it has been removed from the queue, is not bound
\* and is not resolved, and the engine is ready.
C13_Witness ==
    /\ last.op = "webGLSearch"
    /\ last.res = "match"
    /\ last.popped # NoJob
    /\ last.bound = NoJob
    /\ state = "ready"
    /\ last.popped \notin Resolved
    /\ last.popped \notin TimerIds
    /\ last.popped \notin QueueIds(queue)

\* The backend operations of a start, of a round and of a match, in the
\* order the claim requires.
StartOrder == <<"writeData", "init">>

RoundOrder == <<"increment", "twist", "check", "col_check", "readData">>

MatchOrder == <<"finalize", "readData", "callback">>

\* The operations `part` are those of `ops` from position k on.
OpsAt(ops, k, part) ==
    /\ Len(ops) >= k + Len(part) - 1
    /\ SubSeq(ops, k, k + Len(part) - 1) = part

\* C14: backend operations occur in a fixed order.  A job gets a round loop
\* only in a step that uploads the buffer and then runs "init", once; a round
\* is increment, twist, check, col_check and the sentinel read, in one
\* uninterrupted step; "finalize" follows only a sentinel read that indicates
\* a match and precedes the continuation; nothing else is ever dispatched.
C14_BackendOrder ==
    /\ [](/\ last.ops \in {<<>>, StartOrder, RoundOrder, RoundOrder \o MatchOrder,
                           RoundOrder \o MatchOrder \o StartOrder}
          /\ last.op \in {"search", "resume"} => last.ops \in {<<>>, StartOrder}
          /\ last.op \in {"init", "setOffset", "interrupt", "remove"} => last.ops = <<>>
          /\ last.op = "webGLSearch" => OpsAt(last.ops, 1, RoundOrder)
          /\ last.bound # NoJob
               <=> (last.ops # <<>> /\ last.ops[Len(last.ops)] = "init"))
    /\ [][ \A t \in timers' : t.id \notin TimerIds => last'.bound = t.id ]_vars
    /\ [][ last'.op = "webGLSearch"
           => LET t == CHOOSE t \in timers : t.id = last'.job
                  g == [gpu EXCEPT !.nonce = IncrementKernel(gpu.nonce)]
              IN  /\ SentinelMatch(g, t.minWeightMagnitude)
                       <=> OpsAt(last'.ops, 6, MatchOrder)
                  /\ SentinelMatch(g, t.minWeightMagnitude)
                       <=> results'[t.id] # results[t.id]
                  /\ ~SentinelMatch(g, t.minWeightMagnitude)
                       => last'.ops = RoundOrder ]_vars

\* C14 witness: one step has run a round, read a match, finalized, invoked
\* the continuation and uploaded and initialised the next job.
C14_Witness ==
    /\ last.op = "webGLSearch"
    /\ last.ops = RoundOrder \o MatchOrder \o StartOrder
    /\ last.bound \in TimerIds
    /\ last.job \in Resolved

(* ------------------------- the bit-slice codec ------------------------ *)

\* Period of the trit patterns offered to searchToPair.
TritPeriod == 5

\* The trit vectors offered to searchToPair: every pattern of TritPeriod trits
\* repeated over the state, so that every cell sees every trit.
TritVectors ==
    {[i \in 1 .. STATE_LENGTH |-> t[((i - 1) % TritPeriod) + 1]] :
        t \in [1 .. TritPeriod -> {-1, 0, 1}]}

\* The variables of the PearlDiver instance.
progVars == <<state, queue, offset, currentBuffer, gpu, timers, results, nextId,
              removed, clean, last>>

InitCodec ==
    /\ InitProg
    /\ aux \in {[kind |-> "trits", trits |-> v] : v \in TritVectors}

Encode ==
    /\ aux.kind = "trits"
    /\ aux' = [kind |-> "searchToPair", trits |-> aux.trits,
               out |-> searchToPair(aux.trits)]
    /\ UNCHANGED progVars

SpecCodec == InitCodec /\ [][Encode]_vars

\* The cells the seeds are written to, 1-based.
SeedCells == NONCE_START + 1 .. NONCE_START + 4

\* C15: the encoded state is well formed: outside the seed cells trit 0 is
\* (all ones, all ones), +1 is (all zeros, all ones), -1 is (all ones, all
\* zeros); and in every cell, seed cells included, no bit position has low = 0
\* and high = 0.
C15_EncodingWellFormed ==
    aux.kind = "searchToPair"
        => /\ Len(aux.out.low) = STATE_LENGTH
           /\ Len(aux.out.high) = STATE_LENGTH
           /\ \A i \in (1 .. STATE_LENGTH) \ SeedCells :
                  <<aux.out.low[i], aux.out.high[i]>> =
                      (CASE aux.trits[i] = 0  -> <<-1, -1>>
                         [] aux.trits[i] = 1  -> <<0, -1>>
                         [] aux.trits[i] = -1 -> <<-1, 0>>)
           /\ \A i \in 1 .. STATE_LENGTH : \A b \in Lanes :
                  Bit(aux.out.low[i], b) = 1 \/ Bit(aux.out.high[i], b) = 1

\* C15 witness: a vector holding all three trits outside the seed cells has
\* been encoded.
C15_Witness ==
    /\ aux.kind = "searchToPair"
    /\ {aux.trits[i] : i \in (1 .. STATE_LENGTH) \ SeedCells} = {-1, 0, 1}

\* The trit a (low, high) bit pair stands for; 2 for the invalid pair (0, 0).
DecodeTrit(l, h) ==
    IF l = 1 /\ h = 1 THEN 0
    ELSE IF l = 0 /\ h = 1 THEN 1
    ELSE IF l = 1 /\ h = 0 THEN -1
    ELSE 2

\* The four seed trits lane b starts with.
LaneNonce(out, b) ==
    [k \in 1 .. 4 |-> DecodeTrit(Bit(out.low[NONCE_START + k], b),
                                 Bit(out.high[NONCE_START + k], b))]

\* C16: the seed words give the 32 lanes pairwise different starting nonces:
\* the four trits decoded per bit position from the seed cells are 32
\* distinct valid 4-trit values.
C16_LanesDistinct ==
    aux.kind = "searchToPair"
        => /\ \A b, c \in Lanes : b # c => LaneNonce(aux.out, b) # LaneNonce(aux.out, c)
           /\ \A b \in Lanes : \A k \in 1 .. 4 : LaneNonce(aux.out, b)[k] \in {-1, 0, 1}

\* C16 witness: a state has been encoded and its seed cells hold the seeds.
C16_Witness ==
    /\ aux.kind = "searchToPair"
    /\ aux.out.low[NONCE_START + 1] = LOW_0
    /\ aux.out.high[NONCE_START + 4] = HIGH_3
    /\ Cardinality({LaneNonce(aux.out, b) : b \in Lanes}) = 32

(* --------------------------- the twist kernel ------------------------- *)

RECURSIVE WordOfBits(_, _)
\* The value of bits 0 .. b of a bit vector, read as an unsigned number.
WordOfBits(f, b) == IF b < 0 THEN 0 ELSE f[b] * (2 ^ b) + WordOfBits(f, b - 1)

\* The 32-bit two's complement word with the given bits.
Word(f) == IF f[31] = 1 THEN (WordOfBits(f, 30) - 2147483647) - 1 ELSE WordOfBits(f, 30)

\* The integer operators ~, |, & and ^ of the shader language.
Not32(w) == (-1) - w

Or32(v, w) == Word([b \in Lanes |-> IF Bit(v, b) + Bit(w, b) > 0 THEN 1 ELSE 0])

And32(v, w) == Word([b \in Lanes |-> Bit(v, b) * Bit(w, b)])

Xor32(v, w) == Word([b \in Lanes |-> (Bit(v, b) + Bit(w, b)) % 2])

\* Mutant: the previous cell taken at j instead of j - 1.
TwistSource1_unshifted(j, HALF_LENGTH) ==
    IF j = 0 THEN 0 ELSE ((j % 2) + 1) * HALF_LENGTH - (j \div 2)

\* The x coordinate of twist's first read_at, for output cell j.
TwistSource1(j, HALF_LENGTH) ==
    IF j = 0 THEN 0 ELSE (((j - 1) % 2) + 1) * HALF_LENGTH - ((j - 1) \div 2)

\* The x coordinate of twist's second read_at.
TwistSource2(j, HALF_LENGTH) == ((j % 2) + 1) * HALF_LENGTH - (j \div 2)

\* Mutant: delta left out of the high word.
TwistFormula_noDelta(v1, v2) ==
    LET alpha == v1.b
        beta  == v1.a
        gamma == v2.a
        delta == And32(Or32(alpha, Not32(gamma)), Xor32(v2.b, beta))
    IN  [low |-> Not32(delta), high |-> Xor32(alpha, gamma)]

\* The boolean formula of twist on the two texels read.
TwistFormula(v1, v2) ==
    LET alpha == v1.b
        beta  == v1.a
        gamma == v2.a
        delta == And32(Or32(alpha, Not32(gamma)), Xor32(v2.b, beta))
    IN  [low |-> Not32(delta), high |-> Or32(Xor32(alpha, gamma), delta)]

\* Largest half length offered to the index formula.
MaxHalfLength == 12

\* The words offered as channels of the source texels.
TwistWords == {0, -1, LOW_0, HIGH_1, LOW_2, HIGH_3}

InitTwist ==
    /\ InitProg
    /\ aux \in UNION {{[kind |-> "cell", half |-> h, j |-> j] : j \in 0 .. 2 * h + 1} :
                         h \in 1 .. MaxHalfLength}
               \cup {[kind |-> "texels", v1 |-> [b |-> w[1], a |-> w[2]],
                      v2 |-> [b |-> w[3], a |-> w[4]]] :
                        w \in [1 .. 4 -> TwistWords]}

\* main() calls twist() for the cells below STATE_LENGTH = 2 * HALF_LENGTH + 1;
\* the cell at STATE_LENGTH is left as it is.
TwistIndex ==
    /\ aux.kind = "cell"
    /\ aux.j < 2 * aux.half + 1
    /\ aux' = [kind |-> "sources", half |-> aux.half, j |-> aux.j,
               s1 |-> TwistSource1(aux.j, aux.half),
               s2 |-> TwistSource2(aux.j, aux.half)]
    /\ UNCHANGED progVars

TwistCell ==
    /\ aux.kind = "texels"
    /\ aux' = [kind |-> "twisted", v1 |-> aux.v1, v2 |-> aux.v2,
               out |-> TwistFormula(aux.v1, aux.v2)]
    /\ UNCHANGED progVars

NextTwist ==
    \/ TwistIndex
    \/ TwistCell

SpecTwist == InitTwist /\ [][NextTwist]_vars

\* The twist formula on one lane, on truth values.
TwistLane(alpha, beta, gamma, v2b) ==
    LET delta == (alpha \/ ~gamma) /\ (v2b # beta)
    IN  <<~delta, (alpha # gamma) \/ delta>>

\* C17: twist keeps the encoding valid for any source words: no bit position
\* of the output has low = 0 and high = 0, and each output bit position is the
\* lane formula of the same bit position of the four input words.
C17_TwistKeepsEncoding ==
    aux.kind = "twisted"
        => \A b \in Lanes :
             /\ Bit(aux.out.low, b) = 1 \/ Bit(aux.out.high, b) = 1
             /\ <<Bit(aux.out.low, b) = 1, Bit(aux.out.high, b) = 1>>
                  = TwistLane(Bit(aux.v1.b, b) = 1, Bit(aux.v1.a, b) = 1,
                              Bit(aux.v2.a, b) = 1, Bit(aux.v2.b, b) = 1)

\* C17 witness: two texels with seed words in their channels have been
\* twisted, and the output has lanes of all three trits.
C17_Witness ==
    /\ aux.kind = "twisted"
    /\ aux.v1.b = LOW_0
    /\ aux.v2.a = HIGH_1
    /\ {DecodeTrit(Bit(aux.out.low, b), Bit(aux.out.high, b)) : b \in Lanes} = {-1, 0, 1}

\* C18: with S = 2 * HALF_LENGTH + 1, cell j reads the cells j * HALF_LENGTH
\* mod S and (j + 1) * HALF_LENGTH mod S; both are below S, the second source
\* of cell j is the first source of cell j + 1, and the first sources of the
\* cells 0 .. S - 1 are a permutation of 0 .. S - 1.
C18_TwistSources ==
    aux.kind = "sources"
        => LET H == aux.half
               S == 2 * H + 1
           IN  /\ aux.s1 = (aux.j * H) % S
               /\ aux.s2 = ((aux.j + 1) * H) % S
               /\ aux.s1 \in 0 .. S - 1
               /\ aux.s2 \in 0 .. S - 1
               /\ aux.s2 = TwistSource1(aux.j + 1, H)
               /\ {TwistSource1(k, H) : k \in 0 .. S - 1} = 0 .. S - 1

\* C18 witness: the sources of the last cell of a state of more than three
\* cells have been computed.
C18_Witness ==
    /\ aux.kind = "sources"
    /\ aux.half > 1
    /\ aux.j = 2 * aux.half
    /\ aux.s2 = 0

(* ---------------------------- the host buffer ------------------------- *)

\* The words the offered states are made of.
BufferWords == <<0, -1, LOW_0, HIGH_1, LOW_2, HIGH_3>>

\* A word sequence of STATE_LENGTH cells: the words in turn from position a
\* with stride s.
WordRow(a, s) ==
    [i \in 1 .. STATE_LENGTH |-> BufferWords[((a + i * s) % Len(BufferWords)) + 1]]

\* The rows the offered states are made of.
WordRows == {WordRow(a, s) : a \in 0 .. Len(BufferWords) - 1, s \in {0, 1}}

\* A fresh engine and a search object holding the offered states.
InitBuffer ==
    /\ InitProg
    /\ aux \in {[kind |-> "states",
                 job |-> [id |-> 1, states |-> [low |-> l, high |-> h],
                          minWeightMagnitude |-> 1]] :
                   l \in WordRows, h \in WordRows}

\* webGLWriteBuffers(searchObject.states): only _currentBuffer is written.
WriteBuffers ==
    /\ aux.kind = "states"
    /\ CommitProg([Prog EXCEPT
                     !.currentBuffer = webGLWriteBuffers(currentBuffer, aux.job.states)])
    /\ aux' = [aux EXCEPT !.kind = "written"]
    /\ UNCHANGED <<nextId, removed, clean, last>>

\* saveSearch(searchObject) on the host buffer as it was written: the states
\* of the search object are replaced and the object is put at the head of the
\* queue.
SaveSearch ==
    /\ aux.kind = "written"
    /\ CommitProg(saveSearch(Prog, aux.job))
    /\ aux' = [aux EXCEPT !.kind = "saved"]
    /\ UNCHANGED <<nextId, removed, clean, last>>

NextBuffer ==
    \/ WriteBuffers
    \/ SaveSearch

SpecBuffer == InitBuffer /\ [][NextBuffer]_vars

\* C19: webGLWriteBuffers writes cell i as the texel (low[i], high[i], low[i],
\* high[i]) for every i below STATE_LENGTH, and saveSearch on the buffer as
\* written restores low and high element for element, each of STATE_LENGTH
\* cells, in the search object it puts back on the queue.
C19_BufferRoundTrip ==
    /\ aux.kind \in {"written", "saved"}
         => \A i \in 1 .. STATE_LENGTH :
              SubSeq(currentBuffer, (i - 1) * TEXEL_SIZE + 1, i * TEXEL_SIZE)
                = <<aux.job.states.low[i], aux.job.states.high[i],
                    aux.job.states.low[i], aux.job.states.high[i]>>
    /\ aux.kind = "saved"
         => /\ Len(queue) = 1
            /\ Head(queue).id = aux.job.id
            /\ Len(Head(queue).states.low) = STATE_LENGTH
            /\ Len(Head(queue).states.high) = STATE_LENGTH
            /\ Head(queue).states.low = aux.job.states.low
            /\ Head(queue).states.high = aux.job.states.high

\* C19 witness: a state whose low and high rows differ in every cell has been
\* written to the host buffer and read back into the queued search object.
C19_Witness ==
    /\ aux.kind = "saved"
    /\ currentBuffer[1] # currentBuffer[2]
    /\ \A i \in 1 .. STATE_LENGTH : aux.job.states.low[i] # aux.job.states.high[i]
    /\ aux.job.states.low[1] # aux.job.states.low[2]
    /\ queue # <<>>
    /\ Head(queue).states = aux.job.states

(* ------------------------- starting without a job --------------------- *)

\* C20: the engine never starts a search without a job: whenever the engine
\* state becomes searching, searchDoNext has taken a defined job from the
\* queue and bound that job to the backend without an error.
C20_NeverStartsWithoutJob ==
    [][ (state' = "searching" /\ state # "searching")
          => /\ ~last'.err
             /\ last'.popped # NoJob
             /\ last'.bound = last'.popped ]_vars

====
